---- MODULE Spec2Model ----
(***************************************************************************)
(* Gallery Size Organizer (src/gso.py): split_gallery, the log file it     *)
(* shares with files_to_gallery_files, and get_additional_folders.         *)
(*                                                                         *)
(* Sizes are carried in KiB (1024 bytes): 15 * 1024**3 bytes does not fit  *)
(* a 32-bit integer, 15 * 1024**2 KiB does.  Python integers are unbounded *)
(* so no wrap-around is modelled.  A datetime is its POSIX timestamp in    *)
(* seconds (UTC).  A Python list is a sequence; Python's 0-based indices   *)
(* are kept in the program's variables and shifted by one at each access.  *)
(***************************************************************************)
EXTENDS Integers, Sequences, FiniteSets, TLC

VARIABLES
    call,                 \* the function that was invoked
    pc,                   \* position inside that function
    files,                \* the files on the device: <<[size, mtime], ...>>, a file handle is its position
    log_file,             \* content of LOG_FILE: <<>> (empty) or <<timestamp>>
    gallery_files,        \* split_gallery's argument / files_to_gallery_files' local
    subfolders,           \* list holding <<j>> (an int) or <<j, e>> (a tuple)
    total_size,
    i,
    subfolders_created,
    subfolders_size,
    files_copied,
    copied,               \* the copy_file calls made so far: <<file, subfolder_name>>
    exists,               \* indices of the candidate folders os.listdir can list
    other_common_folders,
    error_index,
    n,                    \* loop position inside get_additional_folders
    result                \* what the invoked function returned or raised

vars == <<call, pc, files, log_file, gallery_files, subfolders, total_size, i,
          subfolders_created, subfolders_size, files_copied, copied,
          exists, other_common_folders, error_index, n, result>>

splitVars == <<subfolders, total_size, i, subfolders_created, subfolders_size,
               files_copied, copied>>
folderVars == <<exists, other_common_folders, error_index, n>>

----------------------------------------------------------------------------
(* Bounds and input domains *)

MaxFiles == 4

SUBFOLDER_MAX_SIZE_GB == 15
GSO_FOLDER == "/storage/0/emulated/GSO Backups"

GiB == 1024 * 1024

max_size == SUBFOLDER_MAX_SIZE_GB * GiB

Sizes == {GiB, 5 * GiB, 20 * GiB}

\* 2024-01-01 00:00:00, 2024-01-01 18:00:00, 2024-01-10 00:00:00
Dates == {1704067200, 1704132000, 1704844800}

FileMeta == [size : Sizes, mtime : Dates]

RECURSIVE SeqsUpTo(_, _)
SeqsUpTo(S, len) ==
    IF len = 0 THEN {<<>>}
    ELSE LET shorter == SeqsUpTo(S, len - 1)
         IN  shorter \cup {Append(q, x) : q \in {r \in shorter : Len(r) = len - 1}, x \in S}

LogContents == {<<>>, <<1704067200>>}

----------------------------------------------------------------------------
(* Pure helpers *)

\* seq[k] with Python's indexing: 0-based, a negative k counts from the end
PyIndex(seq, k) == IF k < 0 THEN seq[Len(seq) + k + 1] ELSE seq[k + 1]

get_filesize(file) == files[file].size
get_mtime(file) == files[file].mtime

MetaOf(fs) == [f \in 1..Len(fs) |-> [file |-> f, size |-> fs[f].size, date |-> fs[f].mtime]]

\* date.strftime("%d.%m.%Y"): the proleptic Gregorian date of the day the
\* timestamp falls on, as characters
Digit(d) ==
    CASE d = 0 -> "0" [] d = 1 -> "1" [] d = 2 -> "2" [] d = 3 -> "3" [] d = 4 -> "4"
      [] d = 5 -> "5" [] d = 6 -> "6" [] d = 7 -> "7" [] d = 8 -> "8" [] d = 9 -> "9"

CivilFromDays(days) ==
    LET z    == days + 719468
        era  == z \div 146097
        doe  == z - era * 146097
        yoe  == (doe - (doe \div 1460) + (doe \div 36524) - (doe \div 146096)) \div 365
        doy  == doe - (365 * yoe + (yoe \div 4) - (yoe \div 100))
        mp   == (5 * doy + 2) \div 153
        d    == doy - ((153 * mp + 2) \div 5) + 1
        m    == IF mp < 10 THEN mp + 3 ELSE mp - 9
        y    == yoe + era * 400 + (IF m <= 2 THEN 1 ELSE 0)
    IN  [day |-> d, month |-> m, year |-> y]

format_date(date) ==
    LET c == CivilFromDays(date \div 86400)
    IN  << Digit(c.day \div 10), Digit(c.day % 10), ".",
           Digit(c.month \div 10), Digit(c.month % 10), ".",
           Digit(c.year \div 1000), Digit((c.year \div 100) % 10),
           Digit((c.year \div 10) % 10), Digit(c.year % 10) >>

\* f"{GSO_FOLDER}/{format_date(first)}-{format_date(last)}"
SubfolderName(first, last) ==
    <<GSO_FOLDER, "/">> \o format_date(first) \o <<"-">> \o format_date(last)

\* list.sort(key=lambda f: f["date"]): stable, ascending
RECURSIVE InsertByDate(_, _)
InsertByDate(sorted, f) ==
    IF sorted = <<>> THEN <<f>>
    ELSE IF sorted[Len(sorted)].date <= f.date THEN Append(sorted, f)
    ELSE Append(InsertByDate(SubSeq(sorted, 1, Len(sorted) - 1), f), sorted[Len(sorted)])

RECURSIVE SortByDate(_)
SortByDate(gf) ==
    IF gf = <<>> THEN <<>>
    ELSE InsertByDate(SortByDate(SubSeq(gf, 1, Len(gf) - 1)), gf[Len(gf)])

\* sum of the sizes of gf[a..b], 0-based and inclusive; 0 when a > b
RECURSIVE SumSizes(_, _, _)
SumSizes(gf, a, b) ==
    IF a > b THEN 0 ELSE PyIndex(gf, a).size + SumSizes(gf, a + 1, b)

\* the copy_file calls of "for k in range(a, b+1)"
RECURSIVE CopyCalls(_, _, _, _)
CopyCalls(gf, a, b, name) ==
    IF a > b THEN <<>>
    ELSE <<(<<PyIndex(gf, a).file, name>>)>> \o CopyCalls(gf, a + 1, b, name)

RangeLen(a, b) == IF a > b THEN 0 ELSE b - a + 1

\* a closing test that also fires on a total equal to the capacity
OverflowsAtEqual(total) == total >= max_size

\* "if total_size > max_size"
Overflows(total) == total > max_size

\* a restart that forgets the record that opens the new range
RestartTotalEmpty(size) == 0

\* "total_size = file["size"]" after a range was closed
RestartTotal(size) == size

\* type(subfolder) == type(1)
IsInt(subfolder) == Len(subfolder) = 1

----------------------------------------------------------------------------
(* Initial states: one of the three functions is invoked *)

Init ==
    /\ files \in SeqsUpTo(FileMeta, MaxFiles)
    /\ log_file \in LogContents
    /\ subfolders = <<>>
    /\ total_size = 0
    /\ i = 0
    /\ subfolders_created = <<>>
    /\ subfolders_size = <<>>
    /\ files_copied = 0
    /\ copied = <<>>
    /\ other_common_folders = <<>>
    /\ error_index = <<>>
    /\ n = 0
    /\ result = [kind |-> "none"]
    /\ \/ /\ call = "split_gallery"
          /\ pc = "sort"
          /\ gallery_files = MetaOf(files)
          /\ exists = {}
       \/ /\ call = "files_to_gallery_files"
          /\ pc = "metadata"
          /\ gallery_files = <<>>
          /\ exists = {}
       \/ /\ call = "get_additional_folders"
          /\ pc = "folders"
          /\ files = <<>>
          /\ log_file = <<>>
          /\ gallery_files = <<>>
          /\ exists \in SUBSET (0..4)

----------------------------------------------------------------------------
(* split_gallery, lines 91-140 *)

\* line 96-101: sort, then set up the scan
Sort ==
    /\ call = "split_gallery" /\ pc = "sort"
    /\ gallery_files' = SortByDate(gallery_files)
    /\ subfolders' = << <<0>> >>
    /\ total_size' = 0
    /\ i' = 0
    /\ pc' = "scan"
    /\ UNCHANGED <<call, files, log_file, subfolders_created, subfolders_size,
                   files_copied, copied, result>>
    /\ UNCHANGED folderVars

\* lines 102-109: one iteration of "for file in gallery_files"
ScanStep ==
    /\ call = "split_gallery" /\ pc = "scan"
    /\ i < Len(gallery_files)
    /\ LET file  == PyIndex(gallery_files, i)
           total == total_size + file.size
       IN  IF Overflows(total)
           THEN LET j == subfolders[Len(subfolders)][1]
                IN  /\ subfolders' = SubSeq(subfolders, 1, Len(subfolders) - 1)
                                       \o << <<j, i - 1>>, <<i>> >>
                    /\ total_size' = RestartTotal(file.size)
           ELSE /\ subfolders' = subfolders
                /\ total_size' = total
    /\ i' = i + 1
    /\ UNCHANGED <<call, pc, files, log_file, gallery_files, subfolders_created,
                   subfolders_size, files_copied, copied, result>>
    /\ UNCHANGED folderVars

\* lines 111-114: the scan is over, the statistics start empty
ScanDone ==
    /\ call = "split_gallery" /\ pc = "scan"
    /\ i = Len(gallery_files)
    /\ subfolders_created' = <<>>
    /\ subfolders_size' = <<>>
    /\ files_copied' = 0
    /\ pc' = "copy"
    /\ UNCHANGED <<call, files, log_file, gallery_files, subfolders, total_size, i,
                   copied, result>>
    /\ UNCHANGED folderVars

\* the entry "for subfolder in subfolders" visits next
NextSubfolder == subfolders[Len(subfolders_created) + 1]

\* lines 117-128: one iteration on a tuple; the inner loop copies range(i, j+1)
CopySubfolder ==
    /\ call = "split_gallery" /\ pc = "copy"
    /\ ~IsInt(NextSubfolder)
    /\ LET a    == NextSubfolder[1]
           b    == NextSubfolder[2]
           name == SubfolderName(PyIndex(gallery_files, a).date,
                                 PyIndex(gallery_files, b).date)
       IN  /\ copied' = copied \o CopyCalls(gallery_files, a, b, name)
           /\ total_size' = SumSizes(gallery_files, a, b)
           /\ files_copied' = files_copied + RangeLen(a, b)
           /\ subfolders_size' = Append(subfolders_size, SumSizes(gallery_files, a, b))
           /\ subfolders_created' = Append(subfolders_created, name)
           /\ i' = a
    /\ UNCHANGED <<call, pc, files, log_file, gallery_files, subfolders, result>>
    /\ UNCHANGED folderVars

\* lines 118-119: an int entry ends the loop.  The last entry of subfolders is
\* always an int, so the loop never runs off the end of the list.
CopyBreak ==
    /\ call = "split_gallery" /\ pc = "copy"
    /\ IsInt(NextSubfolder)
    /\ pc' = "log"
    /\ UNCHANGED <<call, files, log_file, gallery_files, result>>
    /\ UNCHANGED splitVars
    /\ UNCHANGED folderVars

\* lines 131-133: open(LOG_FILE, "w") truncates the file, file.write() is given
\* a float and raises TypeError, the with-block closes the file, still empty
WriteLog ==
    /\ call = "split_gallery" /\ pc = "log"
    /\ Len(gallery_files) # 0
    /\ log_file' = <<>>
    /\ result' = [kind |-> "raise", exc |-> "TypeError"]
    /\ pc' = "raised"
    /\ UNCHANGED <<call, files, gallery_files>>
    /\ UNCHANGED splitVars
    /\ UNCHANGED folderVars

\* lines 131, 136-140: nothing to log, the statistics are returned
ReturnStats ==
    /\ call = "split_gallery" /\ pc = "log"
    /\ Len(gallery_files) = 0
    /\ result' = [kind |-> "return",
                  value |-> [subfolders_created |-> subfolders_created,
                             subfolders_size |-> subfolders_size,
                             files_copied |-> files_copied]]
    /\ pc' = "returned"
    /\ UNCHANGED <<call, files, log_file, gallery_files>>
    /\ UNCHANGED splitVars
    /\ UNCHANGED folderVars

----------------------------------------------------------------------------
(* files_to_gallery_files, lines 64-88 *)

\* lines 70-80: the metadata list is built, open(LOG_FILE, "w") truncates the
\* file, and readline() on the write-only handle raises io.UnsupportedOperation.
\* Lines 81-88 (the prompt, the filter, the return) are never reached.
FilesToGalleryFiles ==
    /\ call = "files_to_gallery_files" /\ pc = "metadata"
    /\ gallery_files' = [f \in 1..Len(files) |->
                            [file |-> f, size |-> get_filesize(f), date |-> get_mtime(f)]]
    /\ log_file' = <<>>
    /\ result' = [kind |-> "raise", exc |-> "UnsupportedOperation"]
    /\ pc' = "raised"
    /\ UNCHANGED <<call, files>>
    /\ UNCHANGED splitVars
    /\ UNCHANGED folderVars

----------------------------------------------------------------------------
(* get_additional_folders, lines 165-197 *)

whatsapp ==
    << "/storage/emulated/0/Android/media/com.whatsapp/WhatsApp/Media/WhatsApp Images",
       "/storage/emulated/0/Android/media/com.whatsapp/WhatsApp/Media/WhatsApp Images/Sent",
       "/storage/emulated/0/Android/media/com.whatsapp/WhatsApp/Media/WhatsApp Images/Private" >>

telegram == << "/storage/emulated/0/Pictures/Telegram" >>

screenshot == << "/storage/emulated/0/DCIM/Screenshots" >>

\* list.pop(k) for 0 <= k < len(list): the list without its k-th element
PopAt(list, k) == SubSeq(list, 1, k) \o SubSeq(list, k + 2, Len(list))

\* lines 183-184
ListFolders ==
    /\ call = "get_additional_folders" /\ pc = "folders"
    /\ other_common_folders' = whatsapp \o telegram \o screenshot
    /\ error_index' = <<>>
    /\ n' = 0
    /\ pc' = "probe"
    /\ UNCHANGED <<call, files, log_file, gallery_files, exists, result>>
    /\ UNCHANGED splitVars

\* lines 186-192: one iteration of the probing loop
Probe ==
    /\ call = "get_additional_folders" /\ pc = "probe"
    /\ n < Len(other_common_folders)
    /\ error_index' = IF n \in exists THEN error_index ELSE Append(error_index, n)
    /\ n' = n + 1
    /\ UNCHANGED <<call, pc, files, log_file, gallery_files, exists,
                   other_common_folders, result>>
    /\ UNCHANGED splitVars

\* line 194: the probing loop is over, the removal loop starts
ProbeDone ==
    /\ call = "get_additional_folders" /\ pc = "probe"
    /\ n = Len(other_common_folders)
    /\ n' = 0
    /\ pc' = "pop"
    /\ UNCHANGED <<call, files, log_file, gallery_files, exists,
                   other_common_folders, error_index, result>>
    /\ UNCHANGED splitVars

\* lines 194-195: one iteration of "for i in error_index", the pop succeeds
Pop ==
    /\ call = "get_additional_folders" /\ pc = "pop"
    /\ n < Len(error_index)
    /\ PyIndex(error_index, n) < Len(other_common_folders)
    /\ other_common_folders' = PopAt(other_common_folders, PyIndex(error_index, n))
    /\ n' = n + 1
    /\ UNCHANGED <<call, pc, files, log_file, gallery_files, exists, error_index, result>>
    /\ UNCHANGED splitVars

\* line 195: the index is past the end of the shrunken list, pop raises IndexError
PopRaise ==
    /\ call = "get_additional_folders" /\ pc = "pop"
    /\ n < Len(error_index)
    /\ PyIndex(error_index, n) >= Len(other_common_folders)
    /\ result' = [kind |-> "raise", exc |-> "IndexError"]
    /\ pc' = "raised"
    /\ UNCHANGED <<call, files, log_file, gallery_files, exists,
                   other_common_folders, error_index, n>>
    /\ UNCHANGED splitVars

\* line 197
ReturnFolders ==
    /\ call = "get_additional_folders" /\ pc = "pop"
    /\ n = Len(error_index)
    /\ result' = [kind |-> "return", value |-> other_common_folders]
    /\ pc' = "returned"
    /\ UNCHANGED <<call, files, log_file, gallery_files, exists,
                   other_common_folders, error_index, n>>
    /\ UNCHANGED splitVars

----------------------------------------------------------------------------

Next ==
    \/ Sort
    \/ ScanStep
    \/ ScanDone
    \/ CopySubfolder
    \/ CopyBreak
    \/ WriteLog
    \/ ReturnStats
    \/ FilesToGalleryFiles
    \/ ListFolders
    \/ Probe
    \/ ProbeDone
    \/ Pop
    \/ PopRaise
    \/ ReturnFolders

Spec == Init /\ [][Next]_vars

----------------------------------------------------------------------------
(* Vocabulary of the properties *)

InSplit == call = "split_gallery"

\* the scan has started: subfolders and total_size hold the scan's values
Scanning == InSplit /\ pc # "sort"

\* the copying loop is over
Copied == InSplit /\ pc \in {"log", "raised", "returned"}

NumFiles == Len(gallery_files)

SizeAt(x) == PyIndex(gallery_files, x).size
DateAt(x) == PyIndex(gallery_files, x).date

\* the last index the still open range reaches: the last scanned record
OpenEnd == IF pc = "scan" THEN i - 1 ELSE NumFiles - 1

RangeStart(k) == subfolders[k][1]
RangeEnd(k) == IF IsInt(subfolders[k]) THEN OpenEnd ELSE subfolders[k][2]

\* the entries of subfolders that were given a subfolder
Materialized == 1..Len(subfolders_created)

Oversized(x) == SizeAt(x) > max_size

----------------------------------------------------------------------------
(* C1 .. C10 *)

\* C1 (completeness): once split_gallery has copied a non-empty input of N
\* records, the materialized ranges hold every index of [0, N) exactly once,
\* every file was copied exactly once and files_copied = N.
C1_Completeness ==
    Copied /\ NumFiles > 0 =>
        /\ \A x \in 0..(NumFiles - 1) :
              Cardinality({k \in Materialized :
                              RangeStart(k) <= x /\ x <= RangeEnd(k)}) = 1
        /\ \A f \in 1..NumFiles :
              Cardinality({c \in 1..Len(copied) : copied[c][1] = f}) = 1
        /\ files_copied = NumFiles

\* C2 (capacity bound): every range of subfolders, closed or still open, has a
\* cumulative size <= max_size unless it is exactly one record that is itself
\* larger than max_size; and so has every value of subfolders_size.
C2_CapacityBound ==
    Scanning =>
        /\ \A k \in 1..Len(subfolders) :
              \/ SumSizes(gallery_files, RangeStart(k), RangeEnd(k)) <= max_size
              \/ RangeStart(k) = RangeEnd(k) /\ Oversized(RangeStart(k))
        /\ \A k \in 1..Len(subfolders_size) :
              \/ subfolders_size[k] <= max_size
              \/ /\ RangeStart(k) = RangeEnd(k)
                 /\ Oversized(RangeStart(k))
                 /\ subfolders_size[k] = SizeAt(RangeStart(k))

\* C2 witness: the copying is over, one subfolder holds a single oversized
\* record and another holds several records.
C2_Witness ==
    /\ Copied
    /\ \E k \in Materialized : subfolders_size[k] > max_size
    /\ \E k \in Materialized :
          RangeEnd(k) > RangeStart(k) /\ subfolders_size[k] <= max_size

\* C3 (oversized record policy): once the copying is over, every record larger
\* than max_size is the only member of a materialized range, reported with its
\* own size, and is in no other materialized range; a single 20 GiB record gives
\* one subfolder for the range (0, 0) reported as 20 GiB.
C3_OversizedOwnRange ==
    Copied =>
        /\ \A x \in 0..(NumFiles - 1) :
              Oversized(x) =>
                  /\ \E k \in Materialized :
                        /\ subfolders[k] = <<x, x>>
                        /\ subfolders_size[k] = SizeAt(x)
                  /\ \A k \in Materialized :
                        RangeStart(k) <= x /\ x <= RangeEnd(k) => subfolders[k] = <<x, x>>
        /\ (NumFiles = 1 /\ SizeAt(0) = 20 * GiB =>
               /\ Len(subfolders_created) = 1
               /\ subfolders[1] = <<0, 0>>
               /\ subfolders_size = <<20 * GiB>>)

\* C4 (well-formed ranges): every tuple (start, end) recorded in subfolders has
\* 0 <= start <= end < N.
C4_WellFormedRanges ==
    Scanning =>
        \A k \in 1..Len(subfolders) :
            ~IsInt(subfolders[k]) =>
                /\ 0 <= subfolders[k][1]
                /\ subfolders[k][1] <= subfolders[k][2]
                /\ subfolders[k][2] < NumFiles

\* C5 (fits in one): a non-empty input whose total size is <= max_size ends with
\* exactly one subfolder, for the range (0, N-1), and all N files copied.
C5_FitsInOne ==
    Copied /\ NumFiles > 0 /\ SumSizes(gallery_files, 0, NumFiles - 1) <= max_size =>
        /\ Len(subfolders_created) = 1
        /\ subfolders[1] = <<0, NumFiles - 1>>
        /\ files_copied = NumFiles

\* C6 (ordering): the start indices of the entries of subfolders are strictly
\* ascending.
C6_AscendingStarts ==
    Scanning =>
        \A k \in 1..(Len(subfolders) - 1) : RangeStart(k) < RangeStart(k + 1)

\* C7 (folder naming): every created subfolder is named after the date of the
\* first and of the last record of its own range, both records inside the range.
C7_NamedAfterOwnRange ==
    InSplit =>
        \A k \in Materialized :
            /\ RangeStart(k) <= RangeEnd(k)
            /\ subfolders_created[k] =
                  SubfolderName(DateAt(RangeStart(k)), DateAt(RangeEnd(k)))

\* C8 (checkpoint): files_to_gallery_files leaves the log file as it found it
\* and, given a checkpoint, returns the records modified later than it;
\* split_gallery writes the log only in its last step, where a non-empty run
\* stores the modification time of its latest record.
C8_Checkpoint ==
    [][ /\ (call = "files_to_gallery_files" /\ pc = "metadata" =>
               /\ log_file' = log_file
               /\ (log_file # <<>> =>
                      LET Later(f) == f.date > log_file[1]
                      IN  result' = [kind |-> "return",
                                     value |-> SelectSeq(MetaOf(files), Later)]))
        /\ (InSplit /\ pc # "log" => log_file' = log_file)
        /\ (InSplit /\ pc = "log" /\ NumFiles # 0 =>
               log_file' = <<PyIndex(gallery_files, -1).date>>)
      ]_vars

\* C9 (greedy, strict bound): a range is closed before a record exactly when the
\* running total with that record is > max_size: the total of each range plus
\* the first record of the next range exceeds max_size, and inside a range no
\* running total past its first record exceeds max_size (a total equal to
\* max_size stays).  Sizes 5, 5, 5, 1 GiB split into the ranges 0..2 and 3..3.
C9_GreedyStrictClosing ==
    Scanning =>
        /\ \A k \in 1..(Len(subfolders) - 1) :
              SumSizes(gallery_files, RangeStart(k), RangeEnd(k))
                  + SizeAt(RangeStart(k + 1)) > max_size
        /\ \A k \in 1..Len(subfolders) :
              \A m \in (RangeStart(k) + 1)..RangeEnd(k) :
                  SumSizes(gallery_files, RangeStart(k), m) <= max_size
        /\ (/\ pc # "scan"
            /\ [x \in 1..NumFiles |-> gallery_files[x].size]
                  = <<5 * GiB, 5 * GiB, 5 * GiB, GiB>>
            => [k \in 1..Len(subfolders) |-> <<RangeStart(k), RangeEnd(k)>>]
                  = << <<0, 2>>, <<3, 3>> >>)

\* C9 witness: the scan of sizes 5, 5, 5, 1 GiB is over; the range 0..2 totals
\* exactly max_size and the range that follows starts at 3.
C9_Witness ==
    /\ InSplit /\ pc = "copy"
    /\ [x \in 1..NumFiles |-> gallery_files[x].size] = <<5 * GiB, 5 * GiB, 5 * GiB, GiB>>
    /\ subfolders = << <<0, 2>>, <<3>> >>
    /\ SumSizes(gallery_files, 0, 2) = max_size

\* C10 (additional folders): get_additional_folders ends by returning the
\* candidates that exist, in their original order, and never raises.
C10_ExistingFolders ==
    call = "get_additional_folders" /\ pc \in {"raised", "returned"} =>
        LET all == whatsapp \o telegram \o screenshot
            Listable(p) == \E k \in exists : all[k + 1] = p
        IN  result = [kind |-> "return", value |-> SelectSeq(all, Listable)]

====
